---- MODULE Spec2Model ----
(***************************************************************************)
(* A model of the PDF ingestion pipeline of backend/ingestion.py: the      *)
(* checksum ledger (processed_files), the per-file pipeline                *)
(* (process_single_pdf), the batch loop (process_all_pdfs) and the         *)
(* statistics it returns, together with the store call of                  *)
(* backend/chroma_client.py (add_documents).                               *)
(***************************************************************************)
EXTENDS Integers, Sequences, FiniteSets, TLC

(***************************************************************************)
(* Bounds of the model.                                                    *)
(***************************************************************************)
\* entry-point calls (process_all_pdfs, process_single_pdf) in one behaviour
MaxCalls == 2
\* times the environment rewrites a file in one behaviour
MaxEdits == 1
\* chunks a document with usable text yields, when it yields any
MaxChunks == 2

\* the paths the model knows; a directory holds a subset of them
Files == {"a.pdf", "b.pdf"}

(***************************************************************************)
(* A document: the bytes of a file, named by a version number, and what    *)
(* extraction, cleaning and chunking make of these bytes: the number of    *)
(* usable pages and of chunks that survive the floors.                     *)
(***************************************************************************)
Documents ==
    { d \in [ver : 1..(MaxEdits + 1), pages : 0..1, chunks : {0, MaxChunks}] :
        d.pages = 0 => d.chunks = 0 }

VARIABLES
    \* the environment
    content,          \* content[f]: the document stored under path f
    readable,         \* readable[f]: whether the bytes of f can be read
    dirExists,        \* whether pdf_dir exists
    dir,              \* the *.pdf files directly in pdf_dir
    persisted,        \* ./data/processed_files.json on disk
    store,            \* store[f]: chunks of f the collection holds
    \* the ingestor object
    force,            \* self.force
    processed_files,  \* self.processed_files
    stats,            \* self.stats
    \* control
    pc,               \* where the running call is
    caller,           \* which entry point called process_single_pdf
    queue,            \* files of pdf_files the loop has not reached yet
    cur,              \* the file process_single_pdf is working on
    success,          \* what add_documents returned for cur
    \* history
    ret,              \* the entry point that returned last
    outcome,          \* outcome[f]: what the running call did with f
    accepted,         \* files whose chunks the store accepted from this ingestor
    loaded,           \* processed_files as loaded by the constructor
    life,             \* what this ingestor has done so far
    prev,             \* what the ingestor before this one did
    nCalls,           \* entry-point calls made
    nEdits,           \* files rewritten
    \* ingestors of several operating-system processes over one ledger file
    ingestors,        \* ingestors[p]: the PDFIngestor of process p
    \* one stage of the per-file pipeline, applied to one input
    input,            \* what the stage is applied to
    output,           \* what it returned
    applied,          \* whether it has returned
    \* the rate limiter of the API process
    rate_limit_store, \* rate_limit_store[ip]: the request times kept for ip
    now,              \* datetime.now(), in minutes
    admitted          \* admitted[ip]: the times of the requests of ip that
                      \* were admitted and are younger than the window

vars == << content, readable, dirExists, dir, persisted, store, force,
           processed_files, stats, pc, caller, queue, cur, success, ret,
           outcome, accepted, loaded, life, prev, nCalls, nEdits,
           ingestors, input, output, applied, rate_limit_store, now,
           admitted >>

rateVars == << rate_limit_store, now, admitted >>

\* the variables of the other specifications of this module
auxVars == << ingestors, input, output, applied, rateVars >>

envVars == << content, readable, dirExists, dir >>

(***************************************************************************)
(* Values.                                                                 *)
(***************************************************************************)
\* hashlib.md5(...).hexdigest() of a document's bytes; the empty tuple is the
\* empty string calculate_file_checksum returns when the read fails
Md5Hex(d) == << d.ver, d.pages, d.chunks >>

EmptyChecksum == << >>

\* a dict of path -> checksum is a function on the set of its keys
EmptyDict == [ f \in {} |-> EmptyChecksum ]

\* dict.get(key, default)
DictGet(m, f, default) == IF f \in DOMAIN m THEN m[f] ELSE default

\* m[key] = value
DictSet(m, f, v) == [ g \in (DOMAIN m) \cup {f} |-> IF g = f THEN v ELSE m[g] ]

\* what json.load may return: a mapping, or a JSON value that is no mapping
\* (a list, a string, a number, null)
Mapping(m) == [ isMap |-> TRUE, map |-> m ]

NotAMapping == [ isMap |-> FALSE, map |-> EmptyDict ]

\* the ledger file on disk
FileAbsent == [ state |-> "absent", map |-> EmptyDict ]

FileCorrupt == [ state |-> "corrupt", map |-> EmptyDict ]

FileNotMapping == [ state |-> "notmapping", map |-> EmptyDict ]

FileMapping(m) == [ state |-> "mapping", map |-> m ]

NoOutcome == [ st |-> "none", n |-> 0, seen |-> EmptyChecksum ]

\* the addresses requests come from
Clients == { "a", "b" }

\* app.py, "rate_limit_store = {}": no request was made yet
RateIdle ==
    /\ rate_limit_store = [ ip \in {} |-> << >> ]
    /\ now = 0
    /\ admitted = [ ip \in Clients |-> << >> ]

\* no second process, no stage under study, no request
AuxIdle ==
    /\ ingestors = << >>
    /\ input = "none"
    /\ output = "none"
    /\ applied = FALSE
    /\ RateIdle

InitialStats ==
    [ num_pdfs |-> 0, total_chunks |-> 0, skipped_pdfs |-> 0, errors |-> << >>,
      has_average |-> FALSE, average_num |-> 0, average_den |-> 1 ]

(***************************************************************************)
(* The checksum ledger.                                                    *)
(***************************************************************************)
\* load_processed_files: the parsed file when it exists and parses, else {}
LoadProcessedFiles ==
    CASE persisted.state = "mapping"    -> Mapping(persisted.map)
      [] persisted.state = "notmapping" -> NotAMapping
      [] OTHER                          -> Mapping(EmptyDict)

\* calculate_file_checksum: the digest, or "" when reading raises
CalculateFileChecksum(f) ==
    IF readable[f] THEN Md5Hex(content[f]) ELSE EmptyChecksum

\* should_process_file raises AttributeError at processed_files.get when the
\* loaded JSON value is no mapping
ShouldProcessRaises(frc, led, f) ==
    /\ ~frc
    /\ CalculateFileChecksum(f) # EmptyChecksum
    /\ ~led.isMap

\* a should_process_file that looks only at whether the file has an entry
ShouldProcessFile_NewOnly(frc, led, f) ==
    IF frc THEN TRUE
    ELSE IF CalculateFileChecksum(f) = EmptyChecksum THEN FALSE
    ELSE f \notin DOMAIN led.map

\* should_process_file, when it returns
ShouldProcessFile(frc, led, f) ==
    IF frc THEN TRUE
    ELSE IF CalculateFileChecksum(f) = EmptyChecksum THEN FALSE
    ELSE CalculateFileChecksum(f) # DictGet(led.map, f, EmptyChecksum)

(***************************************************************************)
(* The per-file pipeline, as far as the orchestrator sees it.              *)
(***************************************************************************)
\* extract_and_process_pdf: the number of usable pages; both extractors open
\* the file, so an unreadable file yields []
ExtractAndProcessPdf(f) == IF readable[f] THEN content[f].pages ELSE 0

\* create_chunks: the number of chunk documents
CreateChunks(f) == content[f].chunks

\* stats["errors"].append(message): a message is its kind and the file it names
AppendError(st, kind, f) ==
    [ st EXCEPT !.errors = Append(@, << kind, f >>) ]

\* process_single_pdf from its first line to the add_documents call: where the
\* call goes (disp), the statistics it leaves and what it did with the file
BeforeStore(f, raises) ==
    IF ShouldProcessRaises(force, processed_files, f)
    THEN [ disp |-> "raise", stats |-> stats, st |-> "none" ]
    ELSE IF ~ShouldProcessFile(force, processed_files, f)
    THEN [ disp |-> "return",
           stats |-> [ stats EXCEPT !.skipped_pdfs = @ + 1 ],
           st |-> "skipped" ]
    ELSE IF raises
    THEN [ disp |-> "return", stats |-> AppendError(stats, "exception", f),
           st |-> "exception" ]
    ELSE IF ExtractAndProcessPdf(f) = 0
    THEN [ disp |-> "return", stats |-> AppendError(stats, "notext", f),
           st |-> "notext" ]
    ELSE IF CreateChunks(f) = 0
    THEN [ disp |-> "return", stats |-> AppendError(stats, "nochunks", f),
           st |-> "nochunks" ]
    ELSE [ disp |-> "store", stats |-> stats, st |-> "storing" ]

\* a process_single_pdf that records the checksum whatever the store said
LedgerAfterAdd_Unconditional(led, f, ok) ==
    IF led.isMap
    THEN Mapping(DictSet(led.map, f, CalculateFileChecksum(f)))
    ELSE led

\* the ledger after add_documents returned ok for f
LedgerAfterAdd(led, f, ok) ==
    IF ok /\ led.isMap
    THEN Mapping(DictSet(led.map, f, CalculateFileChecksum(f)))
    ELSE led

\* a process_single_pdf that counts the file before it looks at success
StatsAfterAdd_CountsRejected(st, led, f, k, ok) ==
    IF ok
    THEN IF led.isMap
         THEN [ st EXCEPT !.num_pdfs = @ + 1, !.total_chunks = @ + k ]
         ELSE AppendError(st, "exception", f)
    ELSE AppendError([ st EXCEPT !.num_pdfs = @ + 1, !.total_chunks = @ + k ],
                     "storefail", f)

\* the statistics after add_documents returned ok for f with k chunks; the
\* item assignment raises TypeError when the ledger is no mapping
StatsAfterAdd(st, led, f, k, ok) ==
    IF ok
    THEN IF led.isMap
         THEN [ st EXCEPT !.num_pdfs = @ + 1, !.total_chunks = @ + k ]
         ELSE AppendError(st, "exception", f)
    ELSE AppendError(st, "storefail", f)

\* what the call did with the file, for the history
OutcomeAfterAdd(led, k, ok, seen) ==
    IF ok
    THEN IF led.isMap THEN [ st |-> "processed", n |-> k, seen |-> seen ]
                      ELSE [ st |-> "unrecorded", n |-> 0, seen |-> seen ]
    ELSE [ st |-> "rejected", n |-> 0, seen |-> seen ]

\* a store that replaces the chunks it holds of a file by the new ones
StoreAfterAdd_Replace(st, f, k, ok) ==
    IF ok THEN [ st EXCEPT ![f] = k ] ELSE st

\* collection.add(ids, ...) with fresh uuid4 ids: the k chunks are added to
\* those the collection holds; when add raises, nothing is
StoreAfterAdd(st, f, k, ok) ==
    IF ok THEN [ st EXCEPT ![f] = @ + k ] ELSE st

\* a save_processed_files that never reaches the file
SaveProcessedFiles_Noop(led, saved) == persisted

\* save_processed_files: json.dump of the ledger; when makedirs or open
\* raises, the warning is printed and the file stays as it was
SaveProcessedFiles(led, saved) ==
    IF ~saved THEN persisted
    ELSE IF led.isMap THEN FileMapping(led.map)
    ELSE FileNotMapping

\* process_all_pdfs, "Calculate averages"
WithAverage(st) ==
    IF st.num_pdfs > 0
    THEN [ st EXCEPT !.has_average = TRUE, !.average_num = st.total_chunks,
                     !.average_den = st.num_pdfs ]
    ELSE [ st EXCEPT !.has_average = TRUE, !.average_num = 0,
                     !.average_den = 1 ]

(***************************************************************************)
(* Initial states: a directory of files, a ledger file that no run of this *)
(* program has written yet, and no ingestor.                               *)
(***************************************************************************)
Init ==
    /\ readable \in [ Files -> BOOLEAN ]
    /\ content \in [ Files -> { d \in Documents : d.ver = 1 } ]
    /\ \A f \in Files : ~readable[f] => content[f].pages = 0
    /\ dirExists \in BOOLEAN
    /\ dir \in { {}, {"a.pdf"}, Files }
    /\ ~dirExists => dir = {}
    /\ persisted \in { FileAbsent, FileCorrupt, FileNotMapping }
    /\ store = [ f \in Files |-> 0 ]
    /\ force = FALSE
    /\ processed_files = Mapping(EmptyDict)
    /\ stats = InitialStats
    /\ pc = "noingestor"
    /\ caller = "none"
    /\ queue = {}
    /\ cur = "none"
    /\ success = FALSE
    /\ ret = "none"
    /\ outcome = [ f \in Files |-> NoOutcome ]
    /\ accepted = {}
    /\ loaded = Mapping(EmptyDict)
    /\ life = "none"
    /\ prev = "none"
    /\ nCalls = 0
    /\ nEdits = 0
    /\ AuxIdle

(***************************************************************************)
(* Actions.                                                                *)
(***************************************************************************)
\* PDFIngestor(pdf_dir, force): the ledger is loaded, the statistics are zero
NewIngestor(frc) ==
    /\ pc \in { "noingestor", "ready", "crashed", "summary_crashed" }
    /\ pc = "ready" => life # "fresh"
    /\ force' = frc
    /\ processed_files' = LoadProcessedFiles
    /\ loaded' = LoadProcessedFiles
    /\ stats' = InitialStats
    /\ pc' = "ready"
    /\ caller' = "none"
    /\ queue' = {}
    /\ cur' = "none"
    /\ success' = FALSE
    /\ ret' = "none"
    /\ outcome' = [ f \in Files |-> NoOutcome ]
    /\ accepted' = {}
    /\ prev' = IF pc = "ready" /\ ~force
                  /\ life \in { "batch1clean", "batch1dirty" }
               THEN life ELSE "none"
    /\ life' = "fresh"
    /\ UNCHANGED << auxVars, envVars, persisted, store, nCalls, nEdits >>

\* what the ingestor has done once a batch call returns
LifeAfterBatch(clean) ==
    IF life = "fresh" THEN (IF clean THEN "batch1clean" ELSE "batch1dirty")
    ELSE "other"

\* process_all_pdfs up to the loop: the two early returns, or the listing
ProcessAllPdfs ==
    /\ pc = "ready"
    /\ nCalls < MaxCalls
    /\ nCalls' = nCalls + 1
    /\ outcome' = [ f \in Files |-> NoOutcome ]
    /\ IF ~dirExists
       THEN /\ pc' = "ready"
            /\ ret' = "batch_nodir"
            /\ life' = LifeAfterBatch(TRUE)
            /\ UNCHANGED << caller, queue >>
       ELSE IF dir = {}
       THEN /\ pc' = "ready"
            /\ ret' = "batch_nofiles"
            /\ life' = LifeAfterBatch(TRUE)
            /\ UNCHANGED << caller, queue >>
       ELSE /\ pc' = "loop"
            /\ ret' = "none"
            /\ caller' = "batch"
            /\ queue' = dir
            /\ UNCHANGED life
    /\ UNCHANGED << auxVars, envVars, persisted, store, force, processed_files, stats,
                    cur, success, accepted, loaded, prev, nEdits >>

\* where process_single_pdf returns to
ReturnFromSingle(who) ==
    IF who = "batch"
    THEN /\ pc' = "loop"
         /\ UNCHANGED << ret, life >>
    ELSE /\ pc' = "ready"
         /\ ret' = "single"
         /\ life' = "other"

\* process_single_pdf(f) from its first line to the add_documents call
BeginSingle(f, who, base, raises) ==
    LET r == BeforeStore(f, raises) IN
    /\ stats' = r.stats
    /\ caller' = who
    /\ success' = FALSE
    /\ outcome' = [ base EXCEPT ![f] =
                      [ st |-> r.st, n |-> 0,
                        seen |-> DictGet(processed_files.map, f, EmptyChecksum) ] ]
    /\ IF r.disp = "raise"
       THEN /\ pc' = "crashed"
            /\ cur' = "none"
            /\ ret' = "none"
            /\ UNCHANGED life
       ELSE IF r.disp = "store"
       THEN /\ pc' = "storing"
            /\ cur' = f
            /\ ret' = "none"
            /\ UNCHANGED life
       ELSE /\ cur' = "none"
            /\ ReturnFromSingle(who)

\* one turn of the loop "for pdf_file in pdf_files" of process_all_pdfs
LoopStep ==
    /\ pc = "loop"
    /\ \E f \in queue, raises \in BOOLEAN :
         /\ queue' = queue \ {f}
         /\ BeginSingle(f, "batch", outcome, raises)
    /\ UNCHANGED << auxVars, envVars, persisted, store, force, processed_files,
                    accepted, loaded, prev, nCalls, nEdits >>

\* process_single_pdf(f) called on the ingestor directly (the upload endpoint)
ProcessSinglePdf ==
    /\ pc = "ready"
    /\ nCalls < MaxCalls
    /\ nCalls' = nCalls + 1
    /\ \E f \in Files, raises \in BOOLEAN :
         BeginSingle(f, "single", [ g \in Files |-> NoOutcome ], raises)
    /\ UNCHANGED << auxVars, envVars, persisted, store, force, processed_files, queue,
                    accepted, loaded, prev, nEdits >>

\* chroma_client.add_documents(chunks): collection.add succeeds, or raises
\* and add_documents returns False
AddDocuments ==
    /\ pc = "storing"
    /\ \E ok \in BOOLEAN :
         /\ success' = ok
         /\ store' = StoreAfterAdd(store, cur, CreateChunks(cur), ok)
         /\ accepted' = IF ok THEN accepted \cup {cur} ELSE accepted
    /\ pc' = "recording"
    /\ UNCHANGED << auxVars, envVars, persisted, force, processed_files, stats, caller,
                    queue, cur, ret, outcome, loaded, life, prev,
                    nCalls, nEdits >>

\* process_single_pdf from "if success:" to its return
RecordResult ==
    /\ pc = "recording"
    /\ processed_files' = LedgerAfterAdd(processed_files, cur, success)
    /\ stats' = StatsAfterAdd(stats, processed_files, cur, CreateChunks(cur),
                              success)
    /\ outcome' = [ outcome EXCEPT ![cur] =
                      OutcomeAfterAdd(processed_files, CreateChunks(cur),
                                      success, outcome[cur].seen) ]
    /\ cur' = "none"
    /\ ReturnFromSingle(caller)
    /\ UNCHANGED << auxVars, envVars, persisted, store, force, caller, queue, success,
                    accepted, loaded, prev, nCalls, nEdits >>

\* process_all_pdfs after the loop: save the ledger, set the average, return
FinishAllPdfs ==
    /\ pc = "loop"
    /\ queue = {}
    /\ \E saved \in BOOLEAN :
         /\ persisted' = SaveProcessedFiles(processed_files, saved)
         /\ life' = LifeAfterBatch(stats.errors = << >> /\ saved)
    /\ stats' = WithAverage(stats)
    /\ pc' = "ready"
    /\ ret' = "batch_done"
    /\ UNCHANGED << auxVars, envVars, store, force, processed_files, caller, queue, cur,
                    success, outcome, accepted, loaded, prev,
                    nCalls, nEdits >>

\* main: ingestor.print_summary() after process_all_pdfs; the format of
\* stats['average_chunks_per_pdf'] raises KeyError when the key is missing
PrintSummary ==
    /\ pc = "ready"
    /\ ret \in { "batch_nodir", "batch_nofiles", "batch_done" }
    /\ IF stats.has_average
       THEN /\ pc' = "ready"
            /\ ret' = "none"
       ELSE /\ pc' = "summary_crashed"
            /\ ret' = "none"
    /\ UNCHANGED << auxVars, envVars, persisted, store, force, processed_files, stats,
                    caller, queue, cur, success, outcome, accepted, loaded,
                    life, prev, nCalls, nEdits >>

\* bytes of a file are rewritten between two calls (an edit, or an upload
\* under the same name): its digest changes, the pages and chunks it yields
\* stay.  A rewrite before the first call is another initial state.
ModifyFile ==
    /\ pc \in { "ready", "crashed", "summary_crashed" }
    /\ nCalls > 0
    /\ nEdits < MaxEdits
    /\ nEdits' = nEdits + 1
    /\ \E f \in Files :
         /\ readable[f]
         /\ content' = [ content EXCEPT ![f].ver = @ + 1 ]
    /\ ret' = "none"
    /\ life' = "other"
    /\ prev' = "none"
    /\ outcome' = [ f \in Files |-> NoOutcome ]
    /\ UNCHANGED << auxVars, readable, dirExists, dir, persisted, store,
                    force,
                    processed_files, stats, pc, caller, queue, cur, success,
                    accepted, loaded, nCalls >>

Next ==
    \/ \E frc \in BOOLEAN : NewIngestor(frc)
    \/ ProcessAllPdfs
    \/ LoopStep
    \/ ProcessSinglePdf
    \/ AddDocuments
    \/ RecordResult
    \/ FinishAllPdfs
    \/ PrintSummary
    \/ ModifyFile

Spec == Init /\ [][Next]_vars

(***************************************************************************)
(* Two ingestors over one ledger file: the command line (main) and the     *)
(* reindex endpoint of the API server run in two operating-system          *)
(* processes.  Each constructs a PDFIngestor, which loads the ledger, runs *)
(* process_all_pdfs with force unset over the files it was given, and      *)
(* saves the ledger at the end of the batch.  Nothing in the code locks    *)
(* the ledger file, so the steps of the two interleave freely.             *)
(***************************************************************************)
Procs == { "cli", "api" }

\* no ingestor is at work in this process: the orchestrator's variables rest
NoOrchestrator ==
    /\ store = [ f \in Files |-> 0 ]
    /\ force = FALSE
    /\ processed_files = Mapping(EmptyDict)
    /\ stats = InitialStats
    /\ pc = "noingestor"
    /\ caller = "none"
    /\ queue = {}
    /\ cur = "none"
    /\ success = FALSE
    /\ ret = "none"
    /\ outcome = [ f \in Files |-> NoOutcome ]
    /\ accepted = {}
    /\ loaded = Mapping(EmptyDict)
    /\ life = "none"
    /\ prev = "none"
    /\ nCalls = 0
    /\ nEdits = 0

orchVars == << store, force, processed_files, stats, pc, caller, queue, cur,
               success, ret, outcome, accepted, loaded, life, prev, nCalls,
               nEdits >>

ConcInit ==
    /\ readable = [ f \in Files |-> TRUE ]
    /\ content \in [ Files -> { d \in Documents : d.ver = 1 /\ d.chunks > 0 } ]
    /\ dirExists = TRUE
    /\ dir = Files
    /\ persisted \in { FileAbsent, FileCorrupt, FileNotMapping }
    /\ NoOrchestrator
    /\ ingestors = [ p \in Procs |->
                       [ pc |-> "start", processed_files |-> Mapping(EmptyDict),
                         recorded |-> {}, saved |-> FALSE ] ]
    /\ input = "none"
    /\ output = "none"
    /\ applied = FALSE
    /\ RateIdle

\* PDFIngestor() in process p: __init__ loads the ledger file
ConcLoad(p) ==
    /\ ingestors[p].pc = "start"
    /\ ingestors' = [ ingestors EXCEPT ![p].pc = "loop",
                                       ![p].processed_files = LoadProcessedFiles ]
    /\ UNCHANGED << envVars, persisted, orchVars, input, output, applied,
                    rateVars >>

\* one turn of the batch loop of process p: f is processed and the store
\* accepts its chunks, or should_process_file raises out of the batch
ConcProcess(p, f) ==
    LET led == ingestors[p].processed_files IN
    /\ ingestors[p].pc = "loop"
    /\ f \notin ingestors[p].recorded
    /\ IF ShouldProcessRaises(FALSE, led, f)
       THEN ingestors' = [ ingestors EXCEPT ![p].pc = "crashed" ]
       ELSE /\ ShouldProcessFile(FALSE, led, f)
            /\ ingestors' =
                 [ ingestors EXCEPT
                     ![p].processed_files = LedgerAfterAdd(led, f, TRUE),
                     ![p].recorded = @ \cup {f} ]
    /\ UNCHANGED << envVars, persisted, orchVars, input, output, applied,
                    rateVars >>

\* the end of the batch of process p: save_processed_files
ConcSave(p, saved) ==
    /\ ingestors[p].pc = "loop"
    /\ persisted' = SaveProcessedFiles(ingestors[p].processed_files, saved)
    /\ ingestors' = [ ingestors EXCEPT ![p].pc = "returned",
                                       ![p].saved = saved ]
    /\ UNCHANGED << envVars, orchVars, input, output, applied,
                    rateVars >>

ConcNext ==
    \/ \E p \in Procs : ConcLoad(p)
    \/ \E p \in Procs, f \in Files : ConcProcess(p, f)
    \/ \E p \in Procs, saved \in BOOLEAN : ConcSave(p, saved)

SpecConc == ConcInit /\ [][ConcNext]_vars

(***************************************************************************)
(* The stages of the per-file pipeline, each applied to one input.  The    *)
(* orchestrator rests; a stage takes its input and returns its output.     *)
(***************************************************************************)
\* no directory, no ledger file, no ingestor in any process
StageOnly ==
    /\ readable = [ f \in Files |-> TRUE ]
    /\ content = [ f \in Files |-> [ ver |-> 1, pages |-> 0, chunks |-> 0 ] ]
    /\ dirExists = FALSE
    /\ dir = {}
    /\ persisted = FileAbsent
    /\ NoOrchestrator
    /\ ingestors = << >>
    /\ RateIdle

stageRest == << envVars, persisted, orchVars, ingestors, rateVars >>

(***************************************************************************)
(* Extraction.  A PDF is a sequence of pages; for each of the two          *)
(* libraries the file opens or not, and each page yields, when asked for   *)
(* its text: an exception ("raises"), None, "" or only whitespace          *)
(* ("blank"), text of which cleaning leaves at most 50 characters          *)
(* ("short"), or text that stays usable and yields chunks ("text").        *)
(***************************************************************************)
\* pages of a PDF
MaxPages == 3

Methods == { "pdfplumber", "pypdf2" }

PageOutcomes == { "raises", "blank", "short", "text" }

PdfDocuments ==
    [ opens : [ Methods -> BOOLEAN ],
      pages : UNION { [ 1..n -> [ Methods -> PageOutcomes ] ] : n \in 0..MaxPages } ]

\* an extractor that numbers the pages it keeps 1, 2, 3, ...
ExtractText_Renumbered(doc, method) ==
    IF ~doc.opens[method] THEN << >>
    ELSE LET Kept(i) == doc.pages[i][method] \in { "short", "text" }
             idx == SelectSeq([ i \in 1..Len(doc.pages) |-> i ], Kept)
         IN  [ k \in 1..Len(idx) |->
                 [ text |-> doc.pages[idx[k]][method],
                   page |-> k,
                   extraction_method |-> method ] ]

\* extract_text_with_pdfplumber, extract_text_with_pypdf2: [] when the file
\* does not open; else, in page order, an entry for every page whose text is
\* neither None, empty, whitespace nor an exception, under its position
ExtractText(doc, method) ==
    IF ~doc.opens[method] THEN << >>
    ELSE LET Kept(i) == doc.pages[i][method] \in { "short", "text" }
             idx == SelectSeq([ i \in 1..Len(doc.pages) |-> i ], Kept)
         IN  [ k \in 1..Len(idx) |->
                 [ text |-> doc.pages[idx[k]][method],
                   page |-> idx[k],
                   extraction_method |-> method ] ]

\* an extraction that asks the fallback for each page the preferred library
\* has no text for
ExtractPages_PerPage(doc) ==
    LET p == ExtractText(doc, "pdfplumber")
        q == ExtractText(doc, "pypdf2")
        InP(i) == \E k \in 1..Len(p) : p[k].page = i
        InQ(i) == \E k \in 1..Len(q) : q[k].page = i
        Either(i) == InP(i) \/ InQ(i)
        idx == SelectSeq([ i \in 1..Len(doc.pages) |-> i ], Either)
    IN  [ ran |-> << "pdfplumber", "pypdf2" >>,
          pages_data |->
            [ k \in 1..Len(idx) |->
                IF InP(idx[k])
                THEN p[CHOOSE j \in 1..Len(p) : p[j].page = idx[k]]
                ELSE q[CHOOSE j \in 1..Len(q) : q[j].page = idx[k]] ] ]

\* extract_and_process_pdf, "Try pdfplumber first, fallback to PyPDF2": the
\* libraries that ran and the pages_data it goes on with
ExtractPages(doc) ==
    LET p == ExtractText(doc, "pdfplumber")
    IN  IF p = << >>
        THEN [ ran |-> << "pdfplumber", "pypdf2" >>,
               pages_data |-> ExtractText(doc, "pypdf2") ]
        ELSE [ ran |-> << "pdfplumber" >>, pages_data |-> p ]

\* extract_and_process_pdf, "Filter out pages with insufficient text"
UsablePages(pages_data) ==
    LET Usable(e) == e.text = "text" IN SelectSeq(pages_data, Usable)

\* create_chunks: the page and extraction_method of the chunks, page by page
ChunkMetadata(pages_data) ==
    [ k \in 1..Len(pages_data) |->
        [ page |-> pages_data[k].page,
          extraction_method |-> pages_data[k].extraction_method ] ]

ExtractInit ==
    /\ StageOnly
    /\ input \in PdfDocuments
    /\ output = << >>
    /\ applied = FALSE

\* extract_and_process_pdf and create_chunks on the PDF
Extract ==
    /\ ~applied
    /\ applied' = TRUE
    /\ output' = LET x == ExtractPages(input)
                 IN  [ ran |-> x.ran,
                       pages_data |-> x.pages_data,
                       chunks |-> ChunkMetadata(UsablePages(x.pages_data)) ]
    /\ UNCHANGED << stageRest, input >>

ExtractNext == Extract

SpecExtract == ExtractInit /\ [][ExtractNext]_vars

(***************************************************************************)
(* Header and footer removal.  The text of a page is the sequence of its   *)
(* lines; a line is a pair of what it says and the page it is particular   *)
(* to (0 when it says the same on every page).  "" is a line of            *)
(* whitespace and "digits" a bare page number, which clean_text drops.     *)
(***************************************************************************)
\* pages of the document
DocPages == 10

BlankLine == << "", 0 >>

\* what the first line of a page may say
Headings == { << "Chapter 3", 0 >>, << "Preface", 0 >>, << "Index", 0 >> }

\* the last line of page i: the same footer everywhere, its page number, or
\* the end of its own text
LastLine(kind, i) ==
    CASE kind = "footer" -> << "footer", 0 >>
      [] kind = "digits" -> << "digits", i >>
      [] OTHER           -> << "ending", i >>

\* the documents: all pages but two open with "Chapter 3", the two others, at
\* any two positions, with any heading; every page has text of its own and a
\* last line; the pages may start with a blank line
HeaderDocuments ==
    { [ i \in 1..DocPages |->
          (IF x.blank THEN << BlankLine >> ELSE << >>)
          \o << (IF i = x.at[1] THEN x.others[1]
                 ELSE IF i = x.at[2] THEN x.others[2]
                 ELSE << "Chapter 3", 0 >>),
                << "text", i >>,
                LastLine(x.last, i) >> ] :
      x \in { y \in [ others : Headings \X Headings,
                      at : (1..DocPages) \X (1..DocPages),
                      last : { "footer", "digits", "ending" },
                      blank : BOOLEAN ] : y.at[1] < y.at[2] } }

Range(seq) == { seq[i] : i \in 1..Len(seq) }

\* list.count(x)
Count(seq, x) == Cardinality({ i \in 1..Len(seq) : seq[i] = x })

\* [line.strip() for line in text.split('\n') if line.strip()]
NonEmptyLines(lines) ==
    LET NotBlank(l) == l # BlankLine IN SelectSeq(lines, NotBlank)

\* first_lines: lines[0] of every page that has a line
FirstLines(pages) ==
    LET Has(i) == Len(NonEmptyLines(pages[i])) > 0
        idx == SelectSeq([ i \in 1..Len(pages) |-> i ], Has)
    IN  [ k \in 1..Len(idx) |-> NonEmptyLines(pages[idx[k]])[1] ]

\* last_lines: lines[-1] of every page that has more than one line
LastLines(pages) ==
    LET Has(i) == Len(NonEmptyLines(pages[i])) > 1
        idx == SelectSeq([ i \in 1..Len(pages) |-> i ], Has)
    IN  [ k \in 1..Len(idx) |->
            NonEmptyLines(pages[idx[k]])[Len(NonEmptyLines(pages[idx[k]]))] ]

\* the lines the test on first_lines (and on last_lines) may append: none
\* unless len(set(lines)) < len(lines) * 0.3; else max(set(lines),
\* key=lines.count), any of the most frequent lines when several are, if it
\* occurs on at least len(pages_data) * 0.5 pages
RepeatedLine(lines, nPages) ==
    IF 10 * Cardinality(Range(lines)) < 3 * Len(lines)
    THEN { x \in Range(lines) :
             /\ \A y \in Range(lines) : Count(lines, y) <= Count(lines, x)
             /\ 2 * Count(lines, x) >= nPages }
    ELSE {}

\* detect_repeated_headers_footers: the lists it may return
DetectRepeatedHeadersFooters(pages) ==
    LET Opt(S) == IF S = {} THEN { << >> } ELSE { << x >> : x \in S }
    IN  IF Len(pages) < 3 THEN { << >> }
        ELSE { h \o f : h \in Opt(RepeatedLine(FirstLines(pages), Len(pages))),
                        f \in Opt(RepeatedLine(LastLines(pages), Len(pages))) }

\* remove_headers_footers: every line that equals a pattern goes
RemoveHeadersFooters(lines, patterns) ==
    LET Keep(l) == l \notin Range(patterns)
    IN  IF patterns = << >> THEN lines ELSE SelectSeq(lines, Keep)

\* clean_text: blank lines and bare numbers go, the lines left are joined
CleanText(lines) ==
    LET Keep(l) == l[1] \notin { "", "digits" } IN SelectSeq(lines, Keep)

HeaderInit ==
    /\ StageOnly
    /\ input \in HeaderDocuments
    /\ output = << >>
    /\ applied = FALSE

\* extract_and_process_pdf from "Detect repeated headers/footers" on
CleanPages ==
    /\ ~applied
    /\ applied' = TRUE
    /\ \E patterns \in DetectRepeatedHeadersFooters(input) :
         output' = [ patterns |-> patterns,
                     pages |-> [ i \in 1..Len(input) |->
                                   CleanText(RemoveHeadersFooters(input[i],
                                                                  patterns)) ] ]
    /\ UNCHANGED << stageRest, input >>

HeaderNext == CleanPages

SpecHeader == HeaderInit /\ [][HeaderNext]_vars

(***************************************************************************)
(* Text.  A string is leading whitespace, words separated by single        *)
(* spaces, and trailing whitespace; a word is named by its length, so two  *)
(* words are the same word exactly when they are equally long.             *)
(***************************************************************************)
Text(lead, words, trail) == [ lead |-> lead, words |-> words, trail |-> trail ]

RECURSIVE SumOf(_)
SumOf(ns) == IF ns = << >> THEN 0 ELSE Head(ns) + SumOf(Tail(ns))

\* len(s)
TextLen(t) ==
    t.lead + SumOf(t.words)
      + (IF Len(t.words) > 1 THEN Len(t.words) - 1 ELSE 0) + t.trail

\* s.strip(); a string of whitespace only strips to ""
Strip(t) == Text(0, t.words, 0)

\* set(s.split())
Tokens(t) == { t.words[i] : i \in 1..Len(t.words) }

(***************************************************************************)
(* Chunking.  The splitter is the library's RecursiveCharacterTextSplitter;*)
(* create_chunks takes what it returns for a page as it comes.             *)
(***************************************************************************)
\* pieces the splitter returns for one page
MaxSplit == 2

\* len(page_text.strip()) < 50
PageFloor == 50

\* len(chunk_text.strip()) < 30
ChunkFloor == 30

\* the pieces the splitter may return: around the chunk floor, with and
\* without whitespace at their ends, and whitespace alone
Pieces ==
    { Text(ws[1], words, ws[2]) :
        ws \in { << 0, 0 >>, << 1, 0 >>, << 0, 1 >> },
        words \in { << >>, << ChunkFloor - 1 >>, << ChunkFloor >>,
                    << 14, 15 >>, << 15, 14 >>, << 14, 14 >> } }

\* a page of pages_data: its number, the length of its stripped text, and
\* what text_splitter.split_text returns for its text
SplitPages ==
    [ page : { 1 },
      extraction_method : { "pdfplumber" },
      stripped : { PageFloor - 1, PageFloor },
      split : UNION { [ 1..n -> Pieces ] : n \in 0..MaxSplit } ]

\* a create_chunks that stores the pieces as the splitter returned them
CreateChunkDocuments_Untrimmed(pg) ==
    IF pg.stripped < PageFloor THEN << >>
    ELSE LET Big(i) == TextLen(Strip(pg.split[i])) >= ChunkFloor
             idx == SelectSeq([ i \in 1..Len(pg.split) |-> i ], Big)
         IN  [ k \in 1..Len(idx) |->
                 [ page_content |-> pg.split[idx[k]],
                   page |-> pg.page,
                   chunk_index |-> idx[k] - 1,
                   extraction_method |-> pg.extraction_method ] ]

\* a create_chunks that numbers the chunks it keeps of a page 0, 1, 2, ...
CreateChunkDocuments_Renumbered(pg) ==
    IF pg.stripped < PageFloor THEN << >>
    ELSE LET Big(i) == TextLen(Strip(pg.split[i])) >= ChunkFloor
             idx == SelectSeq([ i \in 1..Len(pg.split) |-> i ], Big)
         IN  [ k \in 1..Len(idx) |->
                 [ page_content |-> Strip(pg.split[idx[k]]),
                   page |-> pg.page,
                   chunk_index |-> k - 1,
                   extraction_method |-> pg.extraction_method ] ]

\* create_chunks, for one page: no chunk of a page under the page floor; else
\* a chunk document for every piece whose stripped text reaches the chunk
\* floor, holding the stripped text and the piece's index from enumerate
CreateChunkDocuments(pg) ==
    IF pg.stripped < PageFloor THEN << >>
    ELSE LET Big(i) == TextLen(Strip(pg.split[i])) >= ChunkFloor
             idx == SelectSeq([ i \in 1..Len(pg.split) |-> i ], Big)
         IN  [ k \in 1..Len(idx) |->
                 [ page_content |-> Strip(pg.split[idx[k]]),
                   page |-> pg.page,
                   chunk_index |-> idx[k] - 1,
                   extraction_method |-> pg.extraction_method ] ]

\* process_single_pdf between create_chunks and add_documents: the list goes
\* to the store as create_chunks returned it, unless it is empty
HandedToStore(chunks) == chunks

ChunkInit ==
    /\ StageOnly
    /\ input \in SplitPages
    /\ output = << >>
    /\ applied = FALSE

\* process_single_pdf from create_chunks to the add_documents call
ChunkAndHand ==
    /\ ~applied
    /\ applied' = TRUE
    /\ output' = HandedToStore(CreateChunkDocuments(input))
    /\ UNCHANGED << stageRest, input >>

ChunkNext == ChunkAndHand

SpecChunks == ChunkInit /\ [][ChunkNext]_vars

(***************************************************************************)
(* create_chunks over the pages of a file.                                 *)
(***************************************************************************)
\* pages of pages_data
MaxFilePages == 2

\* a piece that reaches the chunk floor once stripped, and one that does not
FewPieces == { Text(1, << ChunkFloor >>, 0), Text(0, << ChunkFloor - 1 >>, 0) }

\* pages_data: pages in the order of the file, under the page numbers nums,
\* all from one library
FilePages(nums, method, body) ==
    [ i \in 1..Len(nums) |->
        [ page |-> nums[i],
          extraction_method |-> method,
          stripped |-> body[i].stripped,
          split |-> body[i].split ] ]

\* create_chunks: the chunk documents of the pages, page after page
RECURSIVE CreateChunksOfPages(_)
CreateChunksOfPages(pages_data) ==
    IF pages_data = << >> THEN << >>
    ELSE CreateChunkDocuments(Head(pages_data))
           \o CreateChunksOfPages(Tail(pages_data))

FileChunkInit ==
    /\ StageOnly
    /\ \E n \in 0..MaxFilePages :
         \E nums \in [ 1..n -> 1..(MaxFilePages + 1) ], method \in Methods,
            body \in [ 1..n ->
                         [ stripped : { PageFloor - 1, PageFloor },
                           split : UNION { [ 1..m -> FewPieces ] :
                                           m \in 0..MaxSplit } ] ] :
             /\ \A i, j \in 1..n : i < j => nums[i] < nums[j]
             /\ input = FilePages(nums, method, body)
    /\ output = << >>
    /\ applied = FALSE

\* create_chunks(pages_data, book_title)
CreateChunksOfFile ==
    /\ ~applied
    /\ applied' = TRUE
    /\ output' = CreateChunksOfPages(input)
    /\ UNCHANGED << stageRest, input >>

FileChunkNext == CreateChunksOfFile

SpecFileChunks == FileChunkInit /\ [][FileChunkNext]_vars

(***************************************************************************)
(* Deduplication (embeddings_helper.deduplicate_chunks).                   *)
(***************************************************************************)
\* different words in the passages
MaxTokens == 10

\* similarity_threshold as a fraction; 0.9 is the default
Thresholds == { [ num |-> 9, den |-> 10 ], [ num |-> 1, den |-> 2 ] }

\* page_content: runs of consecutive words, the empty string, whitespace
Passages ==
    { Text(0, [ i \in 1..r[2] |-> r[1] + i - 1 ], 0) :
        r \in { x \in (1..MaxTokens) \X (1..MaxTokens) :
                  x[1] + x[2] - 1 <= MaxTokens } } \cup
    { Text(0, << >>, 0), Text(1, << >>, 0) }

\* chunks in a longer list
MaxChunkList == 3

\* the passages of the longer lists: two that differ in one word of
\* MaxTokens, a single word, the empty string, whitespace
FewPassages ==
    { Text(0, [ i \in 1..MaxTokens |-> i ], 0),
      Text(0, [ i \in 1..(MaxTokens - 1) |-> i ], 0),
      Text(0, << MaxTokens >>, 0),
      Text(0, << >>, 0), Text(1, << >>, 0) }

\* the arguments: no, one or two chunks of any passage, or a longer list of
\* the few, and the threshold
DedupInputs ==
    [ chunks : UNION { [ 1..n -> [ page_content : Passages ] ] : n \in 0..2 }
                 \cup UNION { [ 1..n -> [ page_content : FewPassages ] ] :
                              n \in 3..MaxChunkList },
      similarity_threshold : Thresholds ]

\* a test that takes two contents without any token for duplicates
IsDuplicate_EmptyMatches(chunk_content, existing_content, thr) ==
    /\ TextLen(chunk_content) > 0
    /\ TextLen(existing_content) > 0
    /\ LET overlap == Cardinality(Tokens(chunk_content)
                                    \cap Tokens(existing_content))
           union == Cardinality(Tokens(chunk_content)
                                  \cup Tokens(existing_content))
       IN  \/ union = 0
           \/ overlap * thr.den > thr.num * union

\* a test that also takes a similarity equal to the threshold for a duplicate
IsDuplicate_AtOrAbove(chunk_content, existing_content, thr) ==
    /\ TextLen(chunk_content) > 0
    /\ TextLen(existing_content) > 0
    /\ LET overlap == Cardinality(Tokens(chunk_content)
                                    \cap Tokens(existing_content))
           union == Cardinality(Tokens(chunk_content)
                                  \cup Tokens(existing_content))
       IN  /\ union > 0
           /\ overlap * thr.den >= thr.num * union

\* the test of the inner loop: both contents have characters, their token
\* sets are not both empty, and overlap / union > similarity_threshold
IsDuplicate(chunk_content, existing_content, thr) ==
    /\ TextLen(chunk_content) > 0
    /\ TextLen(existing_content) > 0
    /\ LET overlap == Cardinality(Tokens(chunk_content)
                                    \cap Tokens(existing_content))
           union == Cardinality(Tokens(chunk_content)
                                  \cup Tokens(existing_content))
       IN  /\ union > 0
           /\ overlap * thr.den > thr.num * union

\* a loop that compares a chunk with the last chunk kept only
RECURSIVE DeduplicateFrom_LastOnly(_, _, _, _)
DeduplicateFrom_LastOnly(chunks, i, deduplicated, thr) ==
    IF i > Len(chunks) THEN deduplicated
    ELSE DeduplicateFrom_LastOnly(
           chunks, i + 1,
           IF IsDuplicate(chunks[i].page_content,
                          deduplicated[Len(deduplicated)].page_content, thr)
           THEN deduplicated
           ELSE Append(deduplicated, chunks[i]),
           thr)

\* the loop "for chunk in chunks[1:]", from the i-th chunk on
RECURSIVE DeduplicateFrom(_, _, _, _)
DeduplicateFrom(chunks, i, deduplicated, thr) ==
    IF i > Len(chunks) THEN deduplicated
    ELSE DeduplicateFrom(
           chunks, i + 1,
           IF \E k \in 1..Len(deduplicated) :
                  IsDuplicate(chunks[i].page_content,
                              deduplicated[k].page_content, thr)
           THEN deduplicated
           ELSE Append(deduplicated, chunks[i]),
           thr)

\* deduplicate_chunks
DeduplicateChunks(chunks, thr) ==
    IF chunks = << >> THEN chunks
    ELSE DeduplicateFrom(chunks, 2, << chunks[1] >>, thr)

DedupInit ==
    /\ StageOnly
    /\ input \in DedupInputs
    /\ output = << >>
    /\ applied = FALSE

Deduplicate ==
    /\ ~applied
    /\ applied' = TRUE
    /\ output' = DeduplicateChunks(input.chunks, input.similarity_threshold)
    /\ UNCHANGED << stageRest, input >>

DedupNext == Deduplicate

SpecDedup == DedupInit /\ [][DedupNext]_vars

(***************************************************************************)
(* clean_text, character by character.  A string is the sequence of its    *)
(* characters: "a" and "b" are letters, "1" a digit, "-" punctuation,      *)
(* " " a space and "\n" a line feed.                                       *)
(***************************************************************************)
\* lines of a page
MaxLines == 3

\* \s
IsSpace(c) == c \in { " ", "\n" }

\* \d
IsDigit(c) == c = "1"

\* \w
IsWord(c) == c \in { "a", "b", "1" }

Repeat(c, n) == [ i \in 1..n |-> c ]

\* '\n'.join(lines)
RECURSIVE JoinLines(_)
JoinLines(lines) ==
    IF lines = << >> THEN << >>
    ELSE IF Len(lines) = 1 THEN lines[1]
    ELSE lines[1] \o << "\n" >> \o JoinLines(Tail(lines))

\* text.split('\n')
RECURSIVE SplitLines(_)
SplitLines(text) ==
    LET nl == { i \in 1..Len(text) : text[i] = "\n" } IN
    IF nl = {} THEN << text >>
    ELSE LET i == CHOOSE j \in nl : \A k \in nl : j <= k
         IN  << SubSeq(text, 1, i - 1) >>
               \o SplitLines(SubSeq(text, i + 1, Len(text)))

\* s.strip()
StripChars(str) ==
    LET ink == { i \in 1..Len(str) : ~IsSpace(str[i]) } IN
    IF ink = {} THEN << >>
    ELSE SubSeq(str, CHOOSE i \in ink : \A k \in ink : i <= k,
                     CHOOSE j \in ink : \A k \in ink : k <= j)

\* a line filter without the floor of 3 characters
KeepLine_NoFloor(line) ==
    /\ line # << >>
    /\ ~(\A i \in 1..Len(line) : IsDigit(line[i]))
    /\ ~(\A i \in 1..Len(line) : ~IsWord(line[i]) /\ ~IsSpace(line[i]))

\* the four tests of the loop on a stripped line: "if not line",
\* re.match(r'^\d+$', line), len(line) < 3, re.match(r'^[^\w\s]*$', line)
KeepLine(line) ==
    /\ line # << >>
    /\ ~(\A i \in 1..Len(line) : IsDigit(line[i]))
    /\ ~(Len(line) < 3)
    /\ ~(\A i \in 1..Len(line) : ~IsWord(line[i]) /\ ~IsSpace(line[i]))

\* re.sub(r'\s+', ' ', s): every run of whitespace becomes one space
CollapseWhitespace(str) ==
    LET First(i) == ~IsSpace(str[i]) \/ i = 1 \/ ~IsSpace(str[i - 1])
        idx == SelectSeq([ i \in 1..Len(str) |-> i ], First)
    IN  [ k \in 1..Len(idx) |->
            IF IsSpace(str[idx[k]]) THEN " " ELSE str[idx[k]] ]

\* re.sub(r'\n\s*\n', '\n\n', s): in a run of whitespace, what lies from its
\* first to its last line feed becomes two line feeds
RECURSIVE ParagraphBreaks(_)
ParagraphBreaks(str) ==
    LET Closes(i, j) == /\ i < j
                        /\ str[j] = "\n"
                        /\ \A k \in i..j : IsSpace(str[k])
        opens == { i \in 1..Len(str) :
                     str[i] = "\n" /\ \E j \in 1..Len(str) : Closes(i, j) }
    IN  IF opens = {} THEN str
        ELSE LET i == CHOOSE x \in opens : \A y \in opens : x <= y
                 j == CHOOSE x \in 1..Len(str) :
                        /\ Closes(i, x)
                        /\ \A y \in 1..Len(str) : Closes(i, y) => y <= x
             IN  SubSeq(str, 1, i - 1) \o << "\n", "\n" >>
                   \o ParagraphBreaks(SubSeq(str, j + 1, Len(str)))

\* clean_text
CleanTextOf(text) ==
    IF text = << >> THEN << >>
    ELSE LET lines == SplitLines(text)
             stripped == [ i \in 1..Len(lines) |-> StripChars(lines[i]) ]
             cleaned_lines == SelectSeq(stripped, KeepLine)
         IN  StripChars(ParagraphBreaks(CollapseWhitespace(
                 JoinLines(cleaned_lines))))

\* extract_and_process_pdf, "Filter out pages with insufficient text"
PageKept(cleaned) == Len(cleaned) > PageFloor

\* the lines a page is made of: blank ones, a page number, a short one,
\* punctuation, text with spaces around it and within it, and two long ones
\* that together with " abc " come to the page floor and to one more
LineSamples ==
    { << >>, << " ", " " >>, << "1", "1", "1" >>, << "a", "b" >>,
      << "-", "-", "-" >>, << " ", "a", "b", "a", " " >>,
      << "a", " ", " ", "b" >>,
      Repeat("b", PageFloor - 4), Repeat("b", PageFloor - 3) }

RawTexts ==
    { JoinLines(ls) : ls \in UNION { [ 1..n -> LineSamples ] : n \in 0..MaxLines } }

CleanInit ==
    /\ StageOnly
    /\ input \in RawTexts
    /\ output = << >>
    /\ applied = FALSE

\* clean_text on a page and the filter on its result
CleanPage ==
    /\ ~applied
    /\ applied' = TRUE
    /\ output' = [ text |-> CleanTextOf(input),
                   kept |-> PageKept(CleanTextOf(input)) ]
    /\ UNCHANGED << stageRest, input >>

CleanNext == CleanPage

SpecClean == CleanInit /\ [][CleanNext]_vars

(***************************************************************************)
(* The rate limiter of /api/ask.  The handler is a coroutine that calls    *)
(* check_rate_limit without awaiting in between, so a call is one step.    *)
(* Time is datetime.now() in whole minutes and does not run backwards.     *)
(***************************************************************************)
\* the defaults of check_rate_limit, which ask_question calls it with
max_requests == 60
window_minutes == 1

\* the last minute of the clock
MaxMinute == 2

\* a cleaning that keeps the entries made at the cutoff time as well
Recent_AtCutoff(times, cutoff_time) ==
    LET Young(req_time) == req_time >= cutoff_time
    IN  SelectSeq(times, Young)

\* "[req_time for req_time in ... if req_time > cutoff_time]"
Recent(times, cutoff_time) ==
    LET Young(req_time) == req_time > cutoff_time
    IN  SelectSeq(times, Young)

\* "Clean old entries"
CleanOldEntries(st, client_ip, current_time) ==
    LET cutoff_time == current_time - window_minutes
    IN  IF client_ip \in DOMAIN st
        THEN [ st EXCEPT ![client_ip] = Recent(@, cutoff_time) ]
        ELSE st

\* "if client_ip not in rate_limit_store: rate_limit_store[client_ip] = []"
WithRecord(st, client_ip) ==
    [ ip \in DOMAIN st \cup { client_ip } |->
        IF ip \in DOMAIN st THEN st[ip] ELSE << >> ]

\* check_rate_limit: the store it leaves, and whether it raised
CheckRateLimit(st, client_ip, current_time) ==
    LET kept == WithRecord(CleanOldEntries(st, client_ip, current_time),
                           client_ip)
    IN  IF Len(kept[client_ip]) >= max_requests
        THEN [ raised |-> TRUE, status_code |-> 429, store |-> kept ]
        ELSE [ raised |-> FALSE, status_code |-> 0,
               store |-> [ kept EXCEPT
                             ![client_ip] = Append(@, current_time) ] ]

RateInit ==
    /\ StageOnly
    /\ input = "none"
    /\ output = "none"
    /\ applied = FALSE

\* POST /api/ask from client_ip, up to the return of check_rate_limit: the
\* HTTPException passes through "except HTTPException: raise"
AskQuestion(client_ip) ==
    LET res == CheckRateLimit(rate_limit_store, client_ip, now) IN
    /\ input' = client_ip
    /\ output' = [ raised |-> res.raised, status_code |-> res.status_code ]
    /\ applied' = TRUE
    /\ rate_limit_store' = res.store
    /\ admitted' = IF res.raised THEN admitted
                   ELSE [ admitted EXCEPT ![client_ip] = Append(@, now) ]
    /\ UNCHANGED << envVars, persisted, orchVars, ingestors, now >>

\* a minute passes: the admitted requests as old as the window leave it
Tick ==
    /\ now < MaxMinute
    /\ now' = now + 1
    /\ admitted' = [ ip \in Clients |->
                       LET InWindow(t) == now' - t < window_minutes
                       IN  SelectSeq(admitted[ip], InWindow) ]
    /\ UNCHANGED << envVars, persisted, orchVars, ingestors, input, output,
                    applied, rate_limit_store >>

RateNext ==
    \/ \E client_ip \in Clients : AskQuestion(client_ip)
    \/ Tick

SpecRate == RateInit /\ [][RateNext]_vars

(***************************************************************************)
(* Definitions the properties share.                                       *)
(***************************************************************************)
BatchReturns == { "batch_nodir", "batch_nofiles", "batch_done" }

\* the files the running call took down a failure path of process_single_pdf
FailureKinds == { "exception", "notext", "nochunks", "rejected", "unrecorded" }

\* the files whose chunks the running call handed to add_documents
HandedKinds == { "processed", "rejected", "unrecorded" }

WithOutcome(kinds) == { f \in Files : outcome[f].st \in kinds }

\* the ledger entry of f, "" when there is none
Entry(led, f) == DictGet(led.map, f, EmptyChecksum)

\* a second batch run: the first call of a new ingestor with force unset, made
\* after an ingestor with force unset made one batch call, the files unchanged
SecondRunReturned ==
    /\ ret \in BatchReturns
    /\ ~force
    /\ life \in { "batch1clean", "batch1dirty" }
    /\ prev \in { "batch1clean", "batch1dirty" }

(***************************************************************************)
(* C1: the ledger entry of a file is written only after the store has      *)
(* accepted the chunks of that file: in every reachable state, a file      *)
(* whose ledger entry differs from the entry the constructor loaded is a   *)
(* file whose chunks the store accepted from this ingestor; and while      *)
(* add_documents has not returned for the file in hand, this call has not  *)
(* written its entry.                                                      *)
(***************************************************************************)
C1_LedgerAfterStore ==
    /\ \A f \in Files :
         Entry(processed_files, f) # Entry(loaded, f) => f \in accepted
    /\ pc = "storing" =>
         Entry(processed_files, cur) = outcome[cur].seen

\* a ledger entry was written, after the store accepted the file
C1_Witness ==
    \E f \in Files :
        /\ Entry(processed_files, f) # Entry(loaded, f)
        /\ f \in accepted
        /\ store[f] > 0

(***************************************************************************)
(* C2: when add_documents returns failure for a file, the step that        *)
(* follows leaves the ledger and the processed-file and total-chunk        *)
(* counters as they were, appends one error naming the file, and, in a     *)
(* batch, hands control back to the loop with the remaining files still    *)
(* to do; a batch in which a file was rejected does not raise, and when it *)
(* returns every file of the directory has been handled.                   *)
(***************************************************************************)
C2_StoreRejected ==
    /\ [][ (pc = "recording" /\ ~success) =>
             /\ processed_files' = processed_files
             /\ stats'.num_pdfs = stats.num_pdfs
             /\ stats'.total_chunks = stats.total_chunks
             /\ stats'.skipped_pdfs = stats.skipped_pdfs
             /\ stats'.errors = Append(stats.errors, << "storefail", cur >>)
             /\ outcome'[cur].st = "rejected"
             /\ caller = "batch" => (pc' = "loop" /\ queue' = queue) ]_vars
    /\ [](WithOutcome({"rejected"}) # {} => pc # "crashed")
    /\ [](ret = "batch_done" => \A f \in dir : outcome[f].st # "none")

\* a batch returned in which the store rejected one file and another file of
\* the directory was indexed
C2_Witness ==
    /\ ret = "batch_done"
    /\ WithOutcome({"rejected"}) # {}
    /\ WithOutcome({"processed"}) # {}
    /\ Len(stats.errors) = 1
    /\ stats.num_pdfs = 1

(***************************************************************************)
(* C3, as stated: a second batch run on an unchanged directory, force      *)
(* unset, by a new ingestor hands no chunk to the store and reports        *)
(* skipped_pdfs equal to the number of files of the directory.             *)
(***************************************************************************)
C3_Original ==
    SecondRunReturned =>
        /\ WithOutcome(HandedKinds) = {}
        /\ stats.skipped_pdfs = Cardinality(dir)

(***************************************************************************)
(* C3, amended: the same, when the first run reported no error and its     *)
(* flush of the ledger succeeded.                                          *)
(***************************************************************************)
C3_Idempotent ==
    (SecondRunReturned /\ prev = "batch1clean") =>
        /\ WithOutcome(HandedKinds) = {}
        /\ stats.skipped_pdfs = Cardinality(dir)
        /\ stats.num_pdfs = 0
        /\ stats.total_chunks = 0

\* the second run returned after a first run that indexed both files: it
\* skipped both
C3_Witness ==
    /\ SecondRunReturned
    /\ prev = "batch1clean"
    /\ ret = "batch_done"
    /\ dir = Files
    /\ \A f \in Files : store[f] > 0
    /\ stats.skipped_pdfs = 2

(***************************************************************************)
(* C4: with force unset, a file that has a ledger entry (it was ingested   *)
(* and recorded) is processed again when its current checksum differs from *)
(* the entry, and is skipped when the checksum equals the entry.           *)
(***************************************************************************)
C4_ChecksumSensitive ==
    ~force =>
        \A f \in Files :
            (outcome[f].st # "none" /\ outcome[f].seen # EmptyChecksum) =>
                (outcome[f].st = "skipped"
                    <=> outcome[f].seen = Md5Hex(content[f]))

\* a batch returned that indexed a recorded file again because its bytes had
\* changed, and skipped a recorded file whose bytes had not
C4_Witness ==
    /\ ret = "batch_done"
    /\ ~force
    /\ \E f, g \in dir :
         /\ outcome[f].st = "processed"
         /\ outcome[f].seen # EmptyChecksum
         /\ outcome[f].seen # Md5Hex(content[f])
         /\ outcome[g].st = "skipped"
         /\ outcome[g].seen = Md5Hex(content[g])

(***************************************************************************)
(* C5, as stated: with force unset, should_process_file(f) is true if and  *)
(* only if the ledger has no entry for f or the stored checksum differs    *)
(* from the current checksum of f, also for a file whose bytes cannot be   *)
(* read.  A file is skipped exactly when should_process_file is false.     *)
(***************************************************************************)
C5_ShouldProcessIff ==
    ~force =>
        \A f \in Files :
            outcome[f].st # "none" =>
                (outcome[f].st # "skipped"
                    <=> \/ outcome[f].seen = EmptyChecksum
                        \/ outcome[f].seen # CalculateFileChecksum(f))

(***************************************************************************)
(* C6, as stated: no call of process_single_pdf raises out of the batch,   *)
(* and when the batch returns, every file of the directory was handled and *)
(* every file for which a stage failed, the ledger check of a file whose   *)
(* checksum cannot be computed included, has an error in stats.errors.     *)
(***************************************************************************)
C6_NeverRaises ==
    /\ ~(pc = "crashed" /\ caller = "batch")
    /\ ret = "batch_done" =>
         \A f \in dir :
             /\ outcome[f].st # "none"
             /\ (~readable[f] \/ outcome[f].st \in FailureKinds) =>
                  \E i \in 1..Len(stats.errors) : stats.errors[i][2] = f

(***************************************************************************)
(* C7, as stated: whatever the ledger file holds that is no mapping        *)
(* (absent, not parseable, parseable but no mapping), the ingestor starts  *)
(* with an empty ledger, and no call raises.                               *)
(***************************************************************************)
C7_CorruptLedgerIsEmpty ==
    /\ (life = "fresh" /\ persisted.state # "mapping") =>
           processed_files = Mapping(EmptyDict)
    /\ pc # "crashed"

(***************************************************************************)
(* C8, as stated: the statistics a batch call returns count only the files *)
(* that call handled, also when the ingestor was used before.              *)
(***************************************************************************)
C8_StatsPerRun ==
    ret \in BatchReturns =>
        /\ stats.num_pdfs = Cardinality(WithOutcome({"processed"}))
        /\ stats.skipped_pdfs = Cardinality(WithOutcome({"skipped"}))
        /\ Len(stats.errors) = Cardinality(WithOutcome(FailureKinds))
        /\ stats.total_chunks =
             IF WithOutcome({"processed"}) = {} THEN 0
             ELSE LET p == WithOutcome({"processed"})
                      f == CHOOSE x \in p : TRUE
                  IN  outcome[f].n
                        + (IF p = {f} THEN 0
                           ELSE outcome[CHOOSE y \in p \ {f} : TRUE].n)

(***************************************************************************)
(* C9, as stated: a batch run over a directory without matching files      *)
(* returns zero counts and an empty error list.                            *)
(***************************************************************************)
C9_EmptyDirectory ==
    ret = "batch_nofiles" =>
        /\ stats.num_pdfs = 0
        /\ stats.skipped_pdfs = 0
        /\ stats.total_chunks = 0
        /\ stats.errors = << >>

(***************************************************************************)
(* C10, as stated: every return of process_all_pdfs carries the average,   *)
(* total_chunks / num_pdfs when num_pdfs > 0 and 0 otherwise, and          *)
(* print_summary can read it.                                              *)
(***************************************************************************)
C10_AverageOnEveryReturn ==
    /\ ret \in BatchReturns =>
         /\ stats.has_average
         /\ IF stats.num_pdfs > 0
            THEN stats.average_num * stats.num_pdfs
                   = stats.total_chunks * stats.average_den
            ELSE stats.average_num = 0
    /\ pc # "summary_crashed"

\* an entry point of the ingestor returned to its caller
EntryPointReturned == ret \in BatchReturns \cup { "single" }

\* the errors of stats.errors that name f
ErrorsNaming(f) == { i \in 1..Len(stats.errors) : stats.errors[i][2] = f }

(***************************************************************************)
(* C11, as stated: a file whose processing failed in a run (an exception,  *)
(* no text, no chunks, the store rejecting) is reported exactly once in    *)
(* the stats.errors of that run, its ledger entry is what it was before    *)
(* the run, and the ledger leaves it pending: a run with force unset       *)
(* attempts it again, it does not skip it.                                 *)
(***************************************************************************)
C11_FailedLeftPending ==
    EntryPointReturned =>
        \A f \in WithOutcome(FailureKinds) :
            /\ Cardinality(ErrorsNaming(f)) = 1
            /\ Entry(processed_files, f) = outcome[f].seen
            /\ ~ShouldProcessRaises(FALSE, processed_files, f)
            /\ ShouldProcessFile(FALSE, processed_files, f)

(***************************************************************************)
(* C12, as stated: when an entry point returns, the batch and the          *)
(* single-file one alike, every ledger entry the call wrote is in the      *)
(* ledger file; writing the ledger file a second time leaves it as the     *)
(* first write left it.                                                    *)
(***************************************************************************)
C12_FlushedOnReturn ==
    /\ EntryPointReturned =>
         \A f \in WithOutcome({"processed"}) :
             /\ persisted.state = "mapping"
             /\ f \in DOMAIN persisted.map
             /\ persisted.map[f] = Entry(processed_files, f)
    /\ LET once == SaveProcessedFiles(processed_files, TRUE)
       IN  SaveProcessedFiles(processed_files, TRUE) = once

(***************************************************************************)
(* C13, as stated: when two ingestors overlap on one ledger file, each     *)
(* loading the ledger, recording a file the other does not record and      *)
(* flushing, then in every interleaving of the loads and the flushes the   *)
(* ledger file holds both entries once both have flushed.                  *)
(***************************************************************************)
C13_NoLostUpdate ==
    ( /\ \A p \in Procs : ingestors[p].pc = "returned" /\ ingestors[p].saved
      /\ \A p \in Procs : ingestors[p].recorded # {}
      /\ ingestors["cli"].recorded \cap ingestors["api"].recorded = {} )
    => \A p \in Procs : \A f \in ingestors[p].recorded :
           /\ persisted.state = "mapping"
           /\ f \in DOMAIN persisted.map
           /\ persisted.map[f] = CalculateFileChecksum(f)

\* a 3-page PDF both libraries open: pdfplumber has usable text for pages 1
\* and 3 and none for page 2, PyPDF2 has usable text for page 2
ThreePagesSecondByFallback ==
    /\ applied
    /\ Len(input.pages) = 3
    /\ \A m \in Methods : input.opens[m]
    /\ input.pages[1]["pdfplumber"] = "text"
    /\ input.pages[2]["pdfplumber"] \in { "raises", "blank" }
    /\ input.pages[3]["pdfplumber"] = "text"
    /\ input.pages[2]["pypdf2"] = "text"

(***************************************************************************)
(* C14, as stated: for that 3-page PDF the pipeline produces chunks for    *)
(* pages 1, 2 and 3, and exactly the chunks of page 2 carry the fallback   *)
(* library as extraction_method.                                           *)
(***************************************************************************)
C14_Original ==
    ThreePagesSecondByFallback =>
        /\ { output.chunks[k].page : k \in 1..Len(output.chunks) } = { 1, 2, 3 }
        /\ \A k \in 1..Len(output.chunks) :
               output.chunks[k].extraction_method = "pypdf2"
                   <=> output.chunks[k].page = 2

(***************************************************************************)
(* C14, amended: for that 3-page PDF the fallback does not run; the        *)
(* pipeline produces chunks for pages 1 and 3 only, all with pdfplumber as *)
(* extraction_method, and none for page 2.                                 *)
(***************************************************************************)
C14_PrimaryOnly ==
    ThreePagesSecondByFallback =>
        /\ output.ran = << "pdfplumber" >>
        /\ output.chunks =
             << [ page |-> 1, extraction_method |-> "pdfplumber" ],
                [ page |-> 3, extraction_method |-> "pdfplumber" ] >>

\* the pipeline ran on such a PDF, PyPDF2 having usable text for all 3 pages
C14_Witness ==
    /\ ThreePagesSecondByFallback
    /\ \A i \in 1..3 : input.pages[i]["pypdf2"] = "text"

\* the pages method has text for: it opens the file, and the page yields text
\* that is not empty and not only whitespace
PagesWithText(doc, method) ==
    { i \in 1..Len(doc.pages) :
        doc.opens[method] /\ doc.pages[i][method] \in { "short", "text" } }

(***************************************************************************)
(* C20, as stated: extraction runs pdfplumber first and runs PyPDF2 if and *)
(* only if pdfplumber returned no page with non-empty text; the output of  *)
(* PyPDF2 then replaces that of pdfplumber entirely, so all pages of one   *)
(* PDF carry the same extraction_method; and the page numbers kept are the *)
(* 1-indexed positions in the PDF, also when pages were skipped.           *)
(***************************************************************************)
C20_FallbackPolicy ==
    applied =>
        LET d == output.pages_data
            fellBack == \E k \in 1..Len(output.ran) : output.ran[k] = "pypdf2"
            used == IF fellBack THEN "pypdf2" ELSE "pdfplumber"
        IN  /\ output.ran[1] = "pdfplumber"
            /\ fellBack <=> PagesWithText(input, "pdfplumber") = {}
            /\ { d[k].page : k \in 1..Len(d) } = PagesWithText(input, used)
            /\ \A k \in 1..Len(d) :
                   /\ d[k].extraction_method = used
                   /\ d[k].text = input.pages[d[k].page][used]
            /\ \A j, k \in 1..Len(d) : j < k => d[j].page < d[k].page

\* PyPDF2 ran and its first page with text is not the first page of the PDF
C20_Witness ==
    /\ applied
    /\ output.ran = << "pdfplumber", "pypdf2" >>
    /\ Len(output.pages_data) > 0
    /\ output.pages_data[1].page > 1

(***************************************************************************)
(* C15, as stated: for any 10-page document in which 8 pages have the      *)
(* same first non-empty line L, whatever the first lines of the other 2    *)
(* pages, detect_repeated_headers_footers returns L among the repeated     *)
(* patterns, and after remove_headers_footers and clean_text the text of   *)
(* no page begins with L.                                                  *)
(***************************************************************************)
C15_HeaderRemoved ==
    LET L == << "Chapter 3", 0 >> IN
    (applied /\ Count(FirstLines(input), L) >= DocPages - 2) =>
        /\ L \in Range(output.patterns)
        /\ \A i \in 1..Len(output.pages) :
               output.pages[i] # << >> => output.pages[i][1] # L

(***************************************************************************)
(* C16, as stated: every chunk handed to the store has text that is        *)
(* trimmed, not empty, not whitespace only, and at least the chunk floor   *)
(* (30 characters) long, whatever the splitter returned.                   *)
(***************************************************************************)
C16_ChunkFloor ==
    applied =>
        \A k \in 1..Len(output) :
            LET t == output[k].page_content
            IN  /\ t.lead = 0
                /\ t.trail = 0
                /\ t.words # << >>
                /\ TextLen(t) >= 30

\* chunks were handed over of which one had whitespace at an end when the
\* splitter returned it, and a piece under the floor was dropped
C16_Witness ==
    /\ applied
    /\ Len(output) = 1
    /\ Len(input.split) = 2
    /\ input.split[output[1].chunk_index + 1].lead > 0
    /\ TextLen(output[1].page_content) = ChunkFloor

\* Jaccard similarity of the token sets of s and t above 0.9
NearDuplicates(s, t) ==
    /\ Tokens(s) \cup Tokens(t) # {}
    /\ 10 * Cardinality(Tokens(s) \cap Tokens(t))
         > 9 * Cardinality(Tokens(s) \cup Tokens(t))

(***************************************************************************)
(* C17, as stated: the chunks of a file pass through deduplicate_chunks    *)
(* before they go to add_documents: among the chunks handed to the store,  *)
(* none has a Jaccard token-set similarity above 0.9 with an earlier one.  *)
(***************************************************************************)
C17_DeduplicatedBeforeStore ==
    applied =>
        \A j, k \in 1..Len(output) :
            j < k => ~NearDuplicates(output[j].page_content,
                                     output[k].page_content)

\* whether the Jaccard similarity of the token sets of s and t, when they
\* have one, is strictly above num/den
JaccardAbove(s, t, thr) ==
    /\ Tokens(s) \cup Tokens(t) # {}
    /\ Cardinality(Tokens(s) \cap Tokens(t)) * thr.den
         > thr.num * Cardinality(Tokens(s) \cup Tokens(t))

(***************************************************************************)
(* C18, as stated: deduplicate_chunks on two passages returns only the     *)
(* earlier one when the Jaccard similarity of their token sets is strictly *)
(* above the threshold, and both when it is exactly at or below it.        *)
(***************************************************************************)
C18_StrictThreshold ==
    (applied /\ Len(input.chunks) = 2) =>
        IF JaccardAbove(input.chunks[1].page_content,
                        input.chunks[2].page_content,
                        input.similarity_threshold)
        THEN output = << input.chunks[1] >>
        ELSE output = input.chunks

\* two different passages whose similarity is exactly the default 0.9 went in
\* and both came out
C18_Witness ==
    /\ applied
    /\ Len(input.chunks) = 2
    /\ input.similarity_threshold = [ num |-> 9, den |-> 10 ]
    /\ LET s == Tokens(input.chunks[1].page_content)
           t == Tokens(input.chunks[2].page_content)
       IN  /\ s \cup t # {}
           /\ 10 * Cardinality(s \cap t) = 9 * Cardinality(s \cup t)
    /\ Len(output) = 2

(***************************************************************************)
(* C21, as stated: a file from which no library extracts text, or whose    *)
(* pages cleaning drops, or whose chunks are all under the floor, makes    *)
(* process_single_pdf return 0 without calling the store; the file is not  *)
(* counted as processed, and an error is logged for it.                    *)
(***************************************************************************)
C21_EmptyResultLogged ==
    \A f \in Files :
        ( /\ outcome[f].st # "none"
          /\ ExtractAndProcessPdf(f) = 0 \/ CreateChunks(f) = 0 )
        => /\ outcome[f].st \in FailureKinds \ HandedKinds
           /\ outcome[f].n = 0
           /\ ErrorsNaming(f) # {}

(***************************************************************************)
(* C26, as stated: every file of a batch ends in exactly one terminal      *)
(* outcome: process_all_pdfs on a fresh ingestor over n files does not     *)
(* raise, and when it returns each file was counted exactly once, as       *)
(* processed, skipped or failed:                                           *)
(* num_pdfs + skipped_pdfs + len(errors) = n.                              *)
(***************************************************************************)
C26_OneTerminalOutcome ==
    /\ (ret = "batch_done" /\ life \in { "batch1clean", "batch1dirty" }) =>
         /\ stats.num_pdfs + stats.skipped_pdfs + Len(stats.errors)
              = Cardinality(dir)
         /\ \A f \in dir :
              (IF outcome[f].st = "processed" THEN 1 ELSE 0)
                + (IF outcome[f].st = "skipped" THEN 1 ELSE 0)
                + Cardinality(ErrorsNaming(f)) = 1
    /\ ~(pc = "crashed" /\ caller = "batch" /\ life = "fresh")

(***************************************************************************)
(* C28, as stated: with force set no file is skipped, and every time the   *)
(* store accepts the chunks of a file they are added to those it holds of  *)
(* that file: nothing is removed or replaced, so the chunks stored of an   *)
(* unchanged file grow with every forced run.                              *)
(***************************************************************************)
C28_ForcedRunsAccumulate ==
    /\ [](force => \A f \in Files : outcome[f].st # "skipped")
    /\ [][ /\ \A f \in Files : store'[f] >= store[f]
           /\ (pc = "storing" /\ success') =>
                store'[cur] = store[cur] + CreateChunks(cur) ]_vars

\* two forced runs over the same bytes of a file were both accepted
C28_Witness ==
    /\ force
    /\ nEdits = 0
    /\ EntryPointReturned
    /\ \E f \in Files :
         /\ outcome[f].st = "processed"
         /\ store[f] = 2 * outcome[f].n

\* the sum of fn[x] over the x of S
RECURSIVE SumOver(_, _)
SumOver(S, fn) ==
    IF S = {} THEN 0
    ELSE LET x == CHOOSE y \in S : TRUE IN fn[x] + SumOver(S \ {x}, fn)

(***************************************************************************)
(* C29, as stated, for the first call made on the first ingestor: when it  *)
(* returns, stats.total_chunks is the number of chunks the store accepted  *)
(* and the sum of what process_single_pdf returned.                        *)
(***************************************************************************)
C29_TotalChunksIsAccepted ==
    (EntryPointReturned /\ nCalls = 1) =>
        /\ stats.total_chunks = SumOver(Files, store)
        /\ stats.total_chunks = SumOver(Files, [ f \in Files |-> outcome[f].n ])

\* the characters of str that are no whitespace
Ink(str) == LET Black(c) == ~IsSpace(c) IN SelectSeq(str, Black)

RECURSIVE Concat(_)
Concat(strs) == IF strs = << >> THEN << >> ELSE Head(strs) \o Concat(Tail(strs))

\* the lines of the page, trimmed
TrimmedLines(text) ==
    [ i \in 1..Len(SplitLines(text)) |-> StripChars(SplitLines(text)[i]) ]

\* a trimmed line that is empty, purely numeric, shorter than 3 characters,
\* or made only of characters that are neither word characters nor spaces
Discarded(line) ==
    \/ line = << >>
    \/ \A i \in 1..Len(line) : line[i] = "1"
    \/ Len(line) < 3
    \/ \A i \in 1..Len(line) : line[i] = "-"

(***************************************************************************)
(* C22, as stated: clean_text discards exactly the lines that, trimmed,    *)
(* are empty, purely numeric, shorter than 3 characters or made only of    *)
(* non-word non-space characters, and keeps every other line, in the       *)
(* original order; a page whose cleaned text is not longer than 50         *)
(* characters is excluded from chunking.                                   *)
(***************************************************************************)
C22_LinesFiltered ==
    applied =>
        LET Stays(line) == ~Discarded(line)
            stay == SelectSeq(TrimmedLines(input), Stays)
        IN  /\ Ink(output.text)
                 = Concat([ i \in 1..Len(stay) |-> Ink(stay[i]) ])
            /\ Len(output.text) <= 50 => ~output.kept

\* a page of three lines, one of them discarded, whose cleaned text has
\* exactly 50 characters, was excluded
C22_Witness ==
    /\ applied
    /\ Len(SplitLines(input)) = 3
    /\ Len(output.text) = 50
    /\ ~output.kept

(***************************************************************************)
(* C23, as stated: in the cleaned text whitespace runs within a line are   *)
(* single spaces, and a run of blank lines between two kept lines is a     *)
(* single paragraph break (two line feeds), so that the splitter's         *)
(* separators "\n\n" and "\n" can apply.                                   *)
(***************************************************************************)
C23_ParagraphsKept ==
    applied =>
        LET ls == TrimmedLines(input)
        IN  /\ \A n \in 1..(Len(output.text) - 1) :
                   ~(output.text[n] = " " /\ output.text[n + 1] = " ")
            /\ (\E i, k \in 1..Len(ls) :
                   /\ i + 1 < k
                   /\ ~Discarded(ls[i])
                   /\ ~Discarded(ls[k])
                   /\ \A j \in (i + 1)..(k - 1) : ls[j] = << >>)
               => \E n \in 1..(Len(output.text) - 1) :
                      output.text[n] = "\n" /\ output.text[n + 1] = "\n"

\* the chunk list is ordered by page and then by chunk index
OrderedByPageAndIndex(chunks) ==
    \A j, k \in 1..Len(chunks) :
        j < k => \/ chunks[j].page < chunks[k].page
                 \/ /\ chunks[j].page = chunks[k].page
                    /\ chunks[j].chunk_index < chunks[k].chunk_index

\* every chunk carries the page number and the library of a page of the file
TaggedWithItsPage(chunks, pages) ==
    \A k \in 1..Len(chunks) :
        \E i \in 1..Len(pages) :
            /\ chunks[k].page = pages[i].page
            /\ chunks[k].extraction_method = pages[i].extraction_method
            /\ chunks[k].chunk_index \in 0..(Len(pages[i].split) - 1)

(***************************************************************************)
(* C24, as stated: each kept chunk carries the page number and the library *)
(* of its page and a zero-based index within the page; the chunk list is   *)
(* ordered by page and then by index, so the (page, index) pairs are       *)
(* pairwise distinct; and the kept chunks of a page are numbered 0, 1, 2,  *)
(* ... without gaps.                                                       *)
(***************************************************************************)
C24_Original ==
    applied =>
        /\ TaggedWithItsPage(output, input)
        /\ OrderedByPageAndIndex(output)
        /\ \A k \in 1..Len(output) :
               output[k].chunk_index =
                   Cardinality({ j \in 1..(k - 1) :
                                   output[j].page = output[k].page })

(***************************************************************************)
(* C24, amended: each kept chunk carries the page number and the library   *)
(* of its page, and as index the zero-based position of its piece in what  *)
(* the splitter returned for the page; the chunk list is ordered by page   *)
(* and then by index, so the (page, index) pairs are pairwise distinct;    *)
(* the indices of a page have a gap wherever a piece under the chunk floor *)
(* was dropped.                                                            *)
(***************************************************************************)
C24_IndexIsPiecePosition ==
    applied =>
        /\ TaggedWithItsPage(output, input)
        /\ OrderedByPageAndIndex(output)
        /\ \A i \in 1..Len(input) : \A n \in 1..Len(input[i].split) :
               LET reaches == /\ input[i].stripped >= 50
                              /\ TextLen(Strip(input[i].split[n])) >= 30
                   tagged == { k \in 1..Len(output) :
                                 /\ output[k].page = input[i].page
                                 /\ output[k].chunk_index = n - 1 }
               IN  IF reaches
                   THEN \E k \in tagged :
                          /\ tagged = {k}
                          /\ output[k].page_content = Strip(input[i].split[n])
                   ELSE tagged = {}

\* chunks of two pages were made, and the first chunk of the second page has
\* index 1, the piece before it having been dropped
C24_Witness ==
    /\ applied
    /\ Len(output) = 2
    /\ output[1].page < output[2].page
    /\ output[1].chunk_index = 0
    /\ output[2].chunk_index = 1

\* the chunks of the list at the positions K, in the order of the list
Restricted(chunks, K) ==
    LET In(i) == i \in K
        idx == SelectSeq([ i \in 1..Len(chunks) |-> i ], In)
    IN  [ k \in 1..Len(idx) |-> chunks[idx[k]] ]

(***************************************************************************)
(* C25, as stated: deduplicate_chunks returns a subsequence of its input   *)
(* in the original order that contains the first chunk; a chunk is dropped *)
(* only if an earlier chunk that was kept has a Jaccard similarity above   *)
(* the threshold with it; a chunk without tokens is never dropped.         *)
(***************************************************************************)
C25_FirstOccurrenceKept ==
    applied =>
        LET chunks == input.chunks
            thr == input.similarity_threshold
        IN  \E K \in SUBSET (1..Len(chunks)) :
                /\ output = Restricted(chunks, K)
                /\ chunks # << >> => 1 \in K
                /\ \A i \in 1..Len(chunks) :
                       /\ i \notin K =>
                            \E j \in K :
                                /\ j < i
                                /\ JaccardAbove(chunks[j].page_content,
                                                chunks[i].page_content, thr)
                       /\ Tokens(chunks[i].page_content) = {} => i \in K

\* three chunks went in, the first two of whitespace only, and all came out
C25_Witness ==
    /\ applied
    /\ Len(input.chunks) = 3
    /\ \A i \in 1..2 : /\ Tokens(input.chunks[i].page_content) = {}
                       /\ TextLen(input.chunks[i].page_content) > 0
    /\ Tokens(input.chunks[3].page_content) # {}
    /\ output = input.chunks

(***************************************************************************)
(* C27, as stated: no two chunks of the output of deduplicate_chunks have  *)
(* a Jaccard similarity above the threshold, for every input list; so      *)
(* deduplicate_chunks applied to its output returns it unchanged.          *)
(***************************************************************************)
C27_NoNearDuplicatesLeft ==
    applied =>
        /\ \A j, k \in 1..Len(output) :
               j < k => ~JaccardAbove(output[j].page_content,
                                      output[k].page_content,
                                      input.similarity_threshold)
        /\ DeduplicateChunks(output, input.similarity_threshold) = output

\* of three chunks the third was dropped for the first, the second, unlike
\* both, was kept
C27_Witness ==
    /\ applied
    /\ Len(input.chunks) = 3
    /\ output = << input.chunks[1], input.chunks[2] >>
    /\ Tokens(input.chunks[2].page_content) # {}
    /\ ~JaccardAbove(input.chunks[2].page_content,
                     input.chunks[3].page_content, input.similarity_threshold)

(***************************************************************************)
(* C30, as stated: check_rate_limit admits at most max_requests (60)       *)
(* requests of one client address within any window of window_minutes; a   *)
(* request that arrives when the client has 60 admitted requests younger   *)
(* than the window is rejected with status 429 and is not added to the     *)
(* client's record; admitted requests older than the window do not count,  *)
(* so a request that arrives when the client has fewer is admitted.        *)
(***************************************************************************)
C30_RateLimited ==
    /\ [](\A ip \in Clients : Len(admitted[ip]) <= max_requests)
    /\ [][\A ip \in Clients :
            AskQuestion(ip) =>
              IF Len(admitted[ip]) = max_requests
              THEN /\ output' = [ raised |-> TRUE, status_code |-> 429 ]
                   /\ admitted'[ip] = admitted[ip]
                   /\ rate_limit_store'[ip] = admitted[ip]
              ELSE /\ output'.raised = FALSE
                   /\ rate_limit_store'[ip] = Append(admitted[ip], now)
                   /\ \A other \in DOMAIN rate_limit_store \ { ip } :
                          rate_limit_store'[other] = rate_limit_store[other]
         ]_vars

\* a client is turned away at its 61st request of the minute, while the
\* record of the other client holds the 60 requests of the minute before
C30_Witness ==
    /\ applied
    /\ output = [ raised |-> TRUE, status_code |-> 429 ]
    /\ now > 0
    /\ Len(admitted[input]) = max_requests
    /\ \E other \in DOMAIN rate_limit_store \ { input } :
           /\ Len(rate_limit_store[other]) = max_requests
           /\ admitted[other] = << >>

====
